---- MODULE Spec2Model ----
(***************************************************************************)
(* InputWritr: triggers, aliases, pipes and the recorded input history.    *)
(* One InputWritr instance; the state is the closure variables of the      *)
(* constructor function, the caller-owned objects they refer to, and the   *)
(* host's timer queue and clock.                                           *)
(***************************************************************************)
EXTENDS Integers, Sequences, FiniteSets, TLC

VARIABLES
    settings,           \* the caller's configuration objects, by identity
    groups,             \* heap of trigger-group objects: id -> own properties
    triggers,           \* var triggers: trigger name -> id of its group object
    aliases,            \* var aliases: the aliases literal, in written order
    recording,          \* var recording
    event_information,  \* var event_information
    history,            \* var history: id of a history object, or NoHistory
    histObj,            \* heap of history objects: id -> (timestamp -> info)
    histories,          \* var histories: [arr, named]
    starting_time,      \* var starting_time, in clock ticks, or NoTime
    now,                \* the host clock, in ticks
    pipes,              \* the pipe closures makePipe has returned
    timers,             \* the host's pending setTimeout registrations
    out,                \* what the last call did: handler calls, warnings, fault
    ncalls              \* how many calls the instance has served

vars == <<settings, groups, triggers, aliases, recording, event_information,
          history, histObj, histories, starting_time, now, pipes, timers, out, ncalls>>

----------------------------------------------------------------------------
(* Bounds of the model *)

\* clock ticks per millisecond: performance.now() is fractional
TicksPerMs == 3
\* the clock stops advancing at this tick
MaxNow == 3
\* calls served by the instance in one run: API calls, pipe dispatches and
\* timer callbacks
MaxCalls == 5
\* raw codes listed by one alias, in the configurations of SpecAlias
MaxCodes == 2

----------------------------------------------------------------------------
(* Values *)

\* property keys of trigger groups: alias labels and raw codes (JS property
\* keys are strings; "37" and "65" are integer-like keys)
Keys == {"left", "37", "65"}
\* integer-like keys in ascending numeric order
IntKeysAsc == <<"37", "65">>
\* handler functions, by identity
Handlers == {"fA", "fB"}
\* the value undefined
Undefined == "undefined"
\* marks a key that is not an own property of the object
Absent == "absent"
TriggerNames == {"keydown", "keyup"}
EventInfos == {"e1", "e2"}
\* the caller's configuration objects
CfgIds == {1, 2}
\* history is undefined until restartHistory assigns it
NoHistory == 0
\* starting_time is undefined until restartHistory assigns it
NoTime == -1
\* identities of history objects: each restartHistory creates one
HistIds == 1..MaxCalls
\* names given to saveHistory: an array index and a plain name
SaveNames == {"0", "run"}

IsIntKey(k) == \E i \in 1..Len(IntKeysAsc) : IntKeysAsc[i] = k

Range(s) == {s[i] : i \in 1..Len(s)}

\* id of the group object that configuration c holds under trigger name n
Gid(c, n) == <<c, n>>
\* what functions is when triggers[trigger] is undefined
NoGroup == <<>>
GroupIds == {Gid(c, n) : c \in CfgIds, n \in TriggerNames}

----------------------------------------------------------------------------
(* Objects *)

\* a lookup that takes every key for an own property
HasOwnPropertyAny(obj, k) == TRUE

\* obj.hasOwnProperty(k)
HasOwnProperty(obj, k) == k \in Keys /\ obj[k] # Absent

\* obj[k]: undefined when the key is missing
Get(obj, k) == IF obj[k] = Absent THEN Undefined ELSE obj[k]

\* for (name in aliases): integer-like keys ascending, then the others in the
\* order they were written
ForInOrder(lit) ==
    LET NotInt(a) == ~IsIntKey(a.name)
        WithName(k) == LET Has(a) == a.name = k IN SelectSeq(lit, Has)
        ints == WithName(IntKeysAsc[1]) \o WithName(IntKeysAsc[2])
    IN  ints \o SelectSeq(lit, NotInt)

\* Math.round(ticks / TicksPerMs): nearest integer, halves towards +Infinity
MathRound(ticks) == (2 * ticks + TicksPerMs) \div (2 * TicksPerMs)

----------------------------------------------------------------------------
(* resetAliases *)

\* a loop that stops after the first raw code
CopyToFirstCode(group, alias_name, codes) ==
    IF codes = <<>> THEN group
    ELSE [group EXCEPT ![Head(codes)] = Get(group, alias_name)]

\* the innermost loop: trigger_group[alias_group[i]] = trigger_group[alias_name]
RECURSIVE CopyToCodes(_, _, _)
CopyToCodes(group, alias_name, codes) ==
    IF codes = <<>> THEN group
    ELSE CopyToCodes([group EXCEPT ![Head(codes)] = Get(group, alias_name)],
                     alias_name, Tail(codes))

\* the loop over the trigger groups, for one alias
AliasIntoGroups(heap, trigs, alias) ==
    [g \in DOMAIN heap |->
        IF \E n \in DOMAIN trigs : trigs[n] = g
        THEN CopyToCodes(heap[g], alias.name, alias.codes)
        ELSE heap[g]]

\* the loop over the aliases
RECURSIVE ResetAliasesLoop(_, _, _)
ResetAliasesLoop(heap, trigs, order) ==
    IF order = <<>> THEN heap
    ELSE ResetAliasesLoop(AliasIntoGroups(heap, trigs, Head(order)), trigs, Tail(order))

resetAliases(heap, trigs, lit) == ResetAliasesLoop(heap, trigs, ForInOrder(lit))

----------------------------------------------------------------------------
(* History objects and the histories array *)

\* {} : a history with no entries
EmptyHistory == <<>>

\* the history objects the instance still refers to
Referenced(hist, hists) ==
    ({hist} \cup Range(hists.arr) \cup {hists.named[n] : n \in DOMAIN hists.named})
        \ {NoHistory}

\* objects nothing refers to any more are collected
CollectBut(heap, live) ==
    [i \in HistIds |-> IF i \in live THEN heap[i] ELSE EmptyHistory]
Collect(heap, hist, hists) == CollectBut(heap, Referenced(hist, hists))

\* identity of the object a {} literal creates: one that is not in use
Least(free) == CHOOSE i \in free : \A j \in free : i <= j
FreshHist(hist, hists) == Least(HistIds \ Referenced(hist, hists))

\* histories = []
EmptyHistories == [arr |-> <<>>, named |-> <<>>]

\* histories[name]
HistoriesAt(hists, name) ==
    IF name = "0"
    THEN IF Len(hists.arr) >= 1 THEN hists.arr[1] ELSE NoHistory
    ELSE IF name \in DOMAIN hists.named THEN hists.named[name] ELSE NoHistory

\* histories[name] = hist
HistoriesPut(hists, name, hist) ==
    IF name = "0"
    THEN [hists EXCEPT !.arr = IF Len(hists.arr) >= 1
                                THEN [hists.arr EXCEPT ![1] = hist]
                                ELSE <<hist>>]
    ELSE [hists EXCEPT !.named = (name :> hist) @@ hists.named]

\* getHistory(name): arguments is <<>> or <<name>>
getHistory(arguments) ==
    IF Len(arguments) > 0 THEN HistoriesAt(histories, arguments[1]) ELSE history

\* getHistories()
getHistories == histories

\* getRecording()
getRecording == recording

----------------------------------------------------------------------------
(* What a call did *)

NoEffect == [calls |-> <<>>, warnings |-> 0, threw |-> FALSE]

\* the observation of one call: its name, its arguments, and its effect
Out(op, args, eff, ret) ==
    [op |-> op, args |-> args, calls |-> eff.calls,
     warnings |-> eff.warnings, threw |-> eff.threw, ret |-> ret]

----------------------------------------------------------------------------
(* callEvent *)

\* a check that takes every label for a trigger
HasTriggerAny(trigs, trigger) == TRUE

\* triggers.hasOwnProperty(trigger)
HasTrigger(trigs, trigger) == trigger \in DOMAIN trigs

\* triggers[trigger]
TriggerGroup(trigs, trigger) == IF trigger \in DOMAIN trigs THEN trigs[trigger] ELSE NoGroup

\* event(event_information): a TypeError when event is not a function
Invoke(event, info) ==
    IF event \in Handlers
    THEN [calls |-> << <<event, info>> >>, warnings |-> 0, threw |-> FALSE]
    ELSE [calls |-> <<>>, warnings |-> 0, threw |-> TRUE]

\* callEvent(event, keycode): event is a handler, undefined, or a trigger name
callEvent(event, keycode, trigs, heap, info) ==
    IF event = Undefined
    THEN [calls |-> <<>>, warnings |-> 1, threw |-> FALSE]
    ELSE IF event \in Handlers
    THEN Invoke(event, info)
    ELSE IF ~HasTrigger(trigs, event)
    THEN [calls |-> <<>>, warnings |-> 0, threw |-> TRUE]
    ELSE Invoke(Get(heap[trigs[event]], keycode), info)

----------------------------------------------------------------------------
(* reset *)

\* settings.hasOwnProperty("recording") ? settings.recording : true
RecordingOf(s) == IF Len(s.recording) > 0 THEN s.recording[1] ELSE TRUE

\* settings.triggers: each trigger name of the configuration, with its group
TriggersOf(c, s) == [n \in s.names |-> Gid(c, n)]

\* a reset that also drops the active history and the start time
ResetForgetsHistory(c) ==
    LET s == settings[c] IN
    /\ histories' = EmptyHistories
    /\ triggers' = TriggersOf(c, s)
    /\ event_information' = s.event_information
    /\ recording' = RecordingOf(s)
    /\ aliases' = s.aliases
    /\ groups' = resetAliases(groups, triggers', aliases')
    /\ history' = NoHistory
    /\ starting_time' = NoTime
    /\ histObj' = Collect(histObj, history', histories')
    /\ out' = Out("reset", <<c>>, NoEffect, {})
    /\ UNCHANGED <<settings, now, pipes, timers>>

\* reset(settings), settings being the caller's configuration object c
Reset(c) ==
    LET s == settings[c] IN
    /\ histories' = EmptyHistories
    /\ triggers' = TriggersOf(c, s)
    /\ event_information' = s.event_information
    /\ recording' = RecordingOf(s)
    /\ aliases' = s.aliases
    /\ groups' = resetAliases(groups, triggers', aliases')
    /\ histObj' = Collect(histObj, history, histories')
    /\ out' = Out("reset", <<c>>, NoEffect, {})
    /\ UNCHANGED <<settings, history, starting_time, now, pipes, timers>>

----------------------------------------------------------------------------
(* restartHistory, saveHistory, the simple sets *)

\* a test that ignores keep_history
KeepsHistoryAlways(hist, arguments) == hist # NoHistory

\* history && arguments.length && keep_history
KeepsHistory(hist, arguments) ==
    hist # NoHistory /\ Len(arguments) > 0 /\ arguments[1]

\* restartHistory(keep_history): arguments is <<>> or <<keep_history>>
RestartHistory(arguments) ==
    LET pushed == IF KeepsHistory(history, arguments)
                  THEN [histories EXCEPT !.arr = Append(@, history)]
                  ELSE histories
        fresh == FreshHist(history, pushed)
    IN
    /\ HistIds \ Referenced(history, pushed) # {}
    /\ histories' = pushed
    /\ history' = fresh
    /\ histObj' = Collect([histObj EXCEPT ![fresh] = EmptyHistory], fresh, pushed)
    /\ starting_time' = now
    /\ out' = Out("restartHistory", arguments, NoEffect, {})
    /\ UNCHANGED <<settings, groups, triggers, aliases, recording,
                   event_information, now, pipes, timers>>

\* setRecording(recording_new)
SetRecording(recording_new) ==
    /\ recording' = recording_new
    /\ out' = Out("setRecording", <<recording_new>>, NoEffect, {})
    /\ UNCHANGED <<settings, groups, triggers, aliases, event_information, history,
                   histObj, histories, starting_time, now, pipes, timers>>

\* setEventInformation(event_info_new)
SetEventInformation(event_info_new) ==
    /\ event_information' = event_info_new
    /\ out' = Out("setEventInformation", <<event_info_new>>, NoEffect, {})
    /\ UNCHANGED <<settings, groups, triggers, aliases, recording, history,
                   histObj, histories, starting_time, now, pipes, timers>>

\* saveHistory(name): arguments is <<>> or <<name>>
SaveHistory(arguments) ==
    LET pushed == [histories EXCEPT !.arr = Append(@, history)]
        saved == IF Len(arguments) > 0
                 THEN HistoriesPut(pushed, arguments[1], history)
                 ELSE pushed
    IN
    /\ histories' = saved
    /\ histObj' = Collect(histObj, history, saved)
    /\ out' = Out("saveHistory", arguments, NoEffect, {})
    /\ UNCHANGED <<settings, groups, triggers, aliases, recording, event_information,
                   history, starting_time, now, pipes, timers>>

----------------------------------------------------------------------------
(* makePipe and the pipe it returns *)

\* makePipe(trigger): called with the one argument, so use_label is false
\* and prevent_defaults is undefined
MakePipe(trigger) ==
    IF ~HasTrigger(triggers, trigger)
    THEN /\ out' = Out("makePipe", <<trigger>>,
                       [calls |-> <<>>, warnings |-> 1, threw |-> FALSE], {})
         /\ UNCHANGED <<settings, groups, triggers, aliases, recording,
                        event_information, history, histObj, histories,
                        starting_time, now, pipes, timers>>
    ELSE LET pipe == [trigger |-> trigger, functions |-> TriggerGroup(triggers, trigger)]
         IN /\ pipes' = pipes \cup {pipe}
            /\ out' = Out("makePipe", <<trigger>>, NoEffect, {pipe})
            /\ UNCHANGED <<settings, groups, triggers, aliases, recording,
                           event_information, history, histObj, histories,
                           starting_time, now, timers>>

\* a pipe that records whatever the flag says
ShouldRecordAlways(rec) == TRUE

\* if (recording)
ShouldRecord(rec) == rec

\* history[Math.round(get_timestamp())] = [trigger, alias]
Record(heap, hist, time, trigger, alias) ==
    [heap EXCEPT ![hist] = (time :> <<trigger, alias>>) @@ heap[hist]]

\* a pipe that looks its trigger group up again at each dispatch
PipeFunctionsCurrent(pipe) == TriggerGroup(triggers, pipe.trigger)

\* functions: the variable of makePipe that the closure pipe captured
PipeFunctions(pipe) == pipe.functions

\* pipe(alias), for a pipe that makePipe returned
Pipe(pipe, alias) ==
    LET args == <<pipe.trigger, alias, pipe.functions>> IN
    IF PipeFunctions(pipe) = NoGroup
    THEN \* functions.hasOwnProperty on undefined: a TypeError
         /\ out' = Out("pipe", args, [calls |-> <<>>, warnings |-> 0, threw |-> TRUE], {})
         /\ UNCHANGED <<settings, groups, triggers, aliases, recording,
                        event_information, history, histObj, histories,
                        starting_time, now, pipes, timers>>
    ELSE LET functions == groups[PipeFunctions(pipe)] IN
         IF ~HasOwnProperty(functions, alias)
         THEN /\ out' = Out("pipe", args, NoEffect, {})
              /\ UNCHANGED <<settings, groups, triggers, aliases, recording,
                             event_information, history, histObj, histories,
                             starting_time, now, pipes, timers>>
         ELSE IF ShouldRecord(recording) /\ history = NoHistory
         THEN \* assignment to a property of undefined: a TypeError before callEvent
              /\ out' = Out("pipe", args,
                            [calls |-> <<>>, warnings |-> 0, threw |-> TRUE], {})
              /\ UNCHANGED <<settings, groups, triggers, aliases, recording,
                             event_information, history, histObj, histories,
                             starting_time, now, pipes, timers>>
         ELSE /\ histObj' = IF ShouldRecord(recording)
                            THEN Record(histObj, history, MathRound(now),
                                        pipe.trigger, alias)
                            ELSE histObj
              /\ out' = Out("pipe", args,
                            callEvent(Get(functions, alias), Undefined, triggers,
                                      groups, event_information), {})
              /\ UNCHANGED <<settings, groups, triggers, aliases, recording,
                             event_information, history, histories,
                             starting_time, now, pipes, timers>>

----------------------------------------------------------------------------
(* playHistory and the host's timers *)

\* makeEventCall(info): the closure that runs callEvent(info[0], info[1])
makeEventCall(info) == [info |-> info]

\* setTimeout(handler, delay): arguments is <<handler>> or <<handler, delay>>;
\* a handler that is not a function is script text for the host to compile.
\* The tick of the call matters only to a timer that has to wait
setTimeout(queue, arguments, at) ==
    Append(queue, [handler |-> arguments[1],
                   delay |-> IF Len(arguments) > 1 THEN arguments[2] ELSE 0,
                   at |-> IF Len(arguments) > 1 /\ arguments[2] > 0 THEN at ELSE 0])

\* the timestamps of a history in for-in order: integer keys ascending
RECURSIVE TimesAsc(_)
TimesAsc(times) ==
    IF times = {} THEN <<>>
    ELSE LET t == CHOOSE x \in times : \A y \in times : x <= y
         IN <<t>> \o TimesAsc(times \ {t})

\* the body of the loop of playHistory, over the timestamps left
RECURSIVE PlayLoop(_, _, _, _, _)
PlayLoop(queue, events, times, start, at) ==
    IF times = <<>> THEN queue
    ELSE LET time == Head(times)
             call == makeEventCall(events[time])
         IN PlayLoop(setTimeout(queue,
                                << [code |-> MathRound(time * TicksPerMs - start)] >>,
                                at),
                     events, Tail(times), start, at)

\* the history objects a caller can name: the active one and the archived ones
Retrievable == Referenced(history, histories)

\* a replay that dispatches its first entry at once, through the recording
\* step of a pipe
PlayHistoryRerecord(arguments) ==
    LET events == IF Len(arguments) = 0 THEN history ELSE arguments[1]
        entries == IF events = NoHistory THEN EmptyHistory ELSE histObj[events]
        times == TimesAsc(DOMAIN entries)
    IN
    /\ timers' = PlayLoop(timers, entries, times, starting_time, now)
    /\ histObj' = IF recording /\ history # NoHistory /\ times # <<>>
                   THEN Record(histObj, history, MathRound(now),
                               entries[times[1]][1], entries[times[1]][2])
                   ELSE histObj
    /\ out' = Out("playHistory", arguments, NoEffect, {})
    /\ UNCHANGED <<settings, groups, triggers, aliases, recording, event_information,
                   history, histories, starting_time, now, pipes>>

\* playHistory(events): arguments is <<>> or <<events>>, events a history object
PlayHistory(arguments) ==
    LET events == IF Len(arguments) = 0 THEN history ELSE arguments[1]
        entries == IF events = NoHistory THEN EmptyHistory ELSE histObj[events]
        queue == PlayLoop(timers, entries, TimesAsc(DOMAIN entries), starting_time, now)
    IN
    /\ timers' = queue
    /\ out' = Out("playHistory", arguments, NoEffect, {})
    /\ UNCHANGED <<settings, groups, triggers, aliases, recording, event_information,
                   history, histObj, histories, starting_time, now, pipes>>

\* the tick at which a timer is due
Due(timer) == timer.at + (IF timer.delay > 0 THEN timer.delay ELSE 0) * TicksPerMs

\* the host runs a timer's handler: a closure is called, script text is evaluated
RunHandler(handler) ==
    IF "info" \in DOMAIN handler
    THEN callEvent(handler.info[1], handler.info[2], triggers, groups, event_information)
    ELSE NoEffect

\* the host fires the pending timer that is due first (the earliest
\* registration among equals)
Timeout(i) ==
    /\ i \in 1..Len(timers)
    /\ Due(timers[i]) <= now
    /\ \A j \in 1..Len(timers) :
          Due(timers[j]) > Due(timers[i]) \/ (Due(timers[j]) = Due(timers[i]) /\ j >= i)
    /\ timers' = SubSeq(timers, 1, i - 1) \o SubSeq(timers, i + 1, Len(timers))
    /\ out' = Out("timeout", <<timers[i]>>, RunHandler(timers[i].handler), {})
    /\ UNCHANGED <<settings, groups, triggers, aliases, recording, event_information,
                   history, histObj, histories, starting_time, now, pipes>>

\* the clock advances
Tick ==
    /\ now < MaxNow
    /\ now' = now + 1
    /\ UNCHANGED <<settings, groups, triggers, aliases, recording, event_information,
                   history, histObj, histories, starting_time, pipes, timers, out>>

----------------------------------------------------------------------------
(* Construction *)

\* an object literal of a trigger group
NoKeys == [k \in Keys |-> Absent]
GroupLit(k, handler) == [NoKeys EXCEPT ![k] = handler]

\* the group objects of the caller's configurations, before any reset
InitialGroups(ss) ==
    [g \in GroupIds |-> IF g[2] \in ss[g[1]].names THEN ss[g[1]].groups[g[2]] ELSE NoKeys]

\* new InputWritr(settings): the constructor declares its variables and runs
\* self.reset(settings), with settings the caller's configuration object c
Construct(ss, c) ==
    /\ settings = ss
    /\ triggers = TriggersOf(c, ss[c])
    /\ aliases = ss[c].aliases
    /\ groups = resetAliases(InitialGroups(ss), triggers, aliases)
    /\ recording = RecordingOf(ss[c])
    /\ event_information = ss[c].event_information
    /\ histories = EmptyHistories
    /\ history = NoHistory
    /\ histObj = [i \in HistIds |-> EmptyHistory]
    /\ starting_time = NoTime
    /\ now = 0
    /\ pipes = {}
    /\ timers = <<>>
    /\ out = Out("new", <<c>>, NoEffect, {})
    /\ ncalls = 0

\* two configurations of a session: key-down and key-up handlers with an
\* alias for "left", and a second one that turns recording off
SessionA ==
    [names |-> {"keydown", "keyup"},
     groups |-> [n \in TriggerNames |->
                    IF n = "keydown" THEN GroupLit("left", "fA") ELSE GroupLit("65", "fB")],
     aliases |-> << [name |-> "left", codes |-> <<"37">>] >>,
     recording |-> <<>>,
     event_information |-> "e1"]

SessionB ==
    [names |-> {"keydown"},
     groups |-> [n \in TriggerNames |-> GroupLit("left", "fB")],
     aliases |-> << [name |-> "left", codes |-> <<"65">>] >>,
     recording |-> <<FALSE>>,
     event_information |-> "e2"]

SessionSettings == [c \in CfgIds |-> IF c = 1 THEN SessionA ELSE SessionB]

Init == \E c \in CfgIds : Construct(SessionSettings, c)

\* one call served, of the MaxCalls a run makes
Served == ncalls < MaxCalls /\ ncalls' = ncalls + 1

Next ==
    \/ \E c \in CfgIds : Served /\ Reset(c)
    \/ \E arguments \in {<<>>, <<TRUE>>, <<FALSE>>} : Served /\ RestartHistory(arguments)
    \/ \E b \in BOOLEAN \ {recording} : Served /\ SetRecording(b)
    \/ \E e \in EventInfos \ {event_information} : Served /\ SetEventInformation(e)
    \/ \E arguments \in {<<>>} \cup {<<n>> : n \in SaveNames} :
          Served /\ SaveHistory(arguments)
    \/ \E arguments \in {<<>>} \cup {<<h>> : h \in Retrievable} :
          Served /\ PlayHistory(arguments)
    \/ \E trigger \in TriggerNames : Served /\ MakePipe(trigger)
    \/ \E pipe \in pipes, alias \in Keys : Served /\ Pipe(pipe, alias)
    \/ \E i \in 1..Len(timers) : Served /\ Timeout(i)
    \/ Tick /\ UNCHANGED ncalls

Spec == Init /\ [][Next]_vars

----------------------------------------------------------------------------
(* Alias resolution over a range of configurations *)

\* labels of the aliases object: a plain name and an integer-like one
AliasLabels == {"left", "37"}

\* the lists of raw codes an alias may have
CodeLists == UNION {[1..n -> Keys] : n \in 0..MaxCodes}

\* the aliases literals: no alias, one alias, or the two in either written order
AliasLiterals ==
    {<<>>}
    \cup {<< [name |-> l, codes |-> cs] >> : l \in AliasLabels, cs \in CodeLists}
    \cup {<< [name |-> l1, codes |-> cs1], [name |-> l2, codes |-> cs2] >> :
            <<l1, l2>> \in {p \in AliasLabels \X AliasLabels : p[1] # p[2]},
            <<cs1, cs2>> \in CodeLists \X CodeLists}

\* a configuration with one trigger group, of any content, and any aliases
AliasConfig(group, lit) ==
    [names |-> {"keydown"},
     groups |-> [n \in TriggerNames |-> group],
     aliases |-> lit,
     recording |-> <<>>,
     event_information |-> "e1"]

InitAlias ==
    \E group \in [Keys -> Handlers \cup {Absent}], lit \in AliasLiterals :
        Construct([c \in CfgIds |-> IF c = 1 THEN AliasConfig(group, lit) ELSE SessionB], 1)

NextAlias == \E c \in CfgIds : Served /\ Reset(c)

SpecAlias == InitAlias /\ [][NextAlias]_vars

----------------------------------------------------------------------------
(* The event caller on its own *)

\* callEvent(event, keycode), as a closure of makeEventCall runs it: with the
\* trigger name and the code of a history entry, or with a handler or undefined
CallEvent(event, keycode) ==
    /\ out' = Out("callEvent", <<event, keycode>>,
                  callEvent(event, keycode, triggers, groups, event_information), {})
    /\ UNCHANGED <<settings, groups, triggers, aliases, recording, event_information,
                   history, histObj, histories, starting_time, now, pipes, timers>>

InitCall == \E c \in CfgIds : Construct(SessionSettings, c)

NextCall ==
    \/ \E c \in CfgIds : Served /\ Reset(c)
    \/ \E e \in EventInfos \ {event_information} : Served /\ SetEventInformation(e)
    \/ \E event \in TriggerNames \cup Handlers \cup {Undefined}, keycode \in Keys :
          Served /\ CallEvent(event, keycode)

SpecCall == InitCall /\ [][NextCall]_vars

----------------------------------------------------------------------------
(* Properties *)

\* what the instance owns, apart from the observation of the last call
state == <<groups, triggers, aliases, recording, event_information, history,
           histObj, histories, starting_time, pipes, timers>>

\* the step is a call of the named operation
Called(op) == ncalls' # ncalls /\ out'.op = op

\* the step is a dispatch through a pipe; its trigger name, its code and the
\* value its trigger group holds at that code
Dispatched == Called("pipe")
DispatchTrigger == out'.args[1]
DispatchCode == out'.args[2]
DispatchValue == groups[out'.args[3]][out'.args[2]]

\* the entries of the active history
Entries == histObj[history]

\* the configuration lists no raw code under two aliases, and no raw code of
\* an alias is the label of another alias
WellFormedAliases ==
    \A i, j \in 1..Len(aliases) :
        i # j => /\ Range(aliases[i].codes) \cap Range(aliases[j].codes) = {}
                 /\ aliases[j].name \notin Range(aliases[i].codes)

\* in every trigger group where an alias label is defined, every raw code of
\* the alias holds the handler of the label
AliasesResolved ==
    \A i \in 1..Len(aliases) : \A n \in DOMAIN triggers :
        LET g == groups[triggers[n]] IN
        g[aliases[i].name] \notin {Absent, Undefined} =>
            \A k \in 1..Len(aliases[i].codes) : g[aliases[i].codes[k]] = g[aliases[i].name]

\* C1, as stated: after reset, in every trigger group where an alias label is
\* defined every raw code of the alias is bound to the label's handler,
\* whatever the configuration
C1_ResolvedForEveryConfig == out.op \in {"new", "reset"} => AliasesResolved

\* C1, amended: after reset, in every trigger group where an alias label is
\* defined every raw code of the alias is bound to the label's handler,
\* provided no raw code is listed by two aliases and no raw code of an alias
\* is the label of another alias
C1_ResolvedWhenWellFormed ==
    (out.op \in {"new", "reset"} /\ WellFormedAliases) => AliasesResolved

\* a reset has resolved an alias with two different raw codes and a handler
\* under its label
C1_Witness ==
    /\ out.op = "reset"
    /\ WellFormedAliases
    /\ \E i \in 1..Len(aliases) : \E n \in DOMAIN triggers :
          /\ Len(aliases[i].codes) = 2
          /\ aliases[i].codes[1] # aliases[i].codes[2]
          /\ aliases[i].name \notin Range(aliases[i].codes)
          /\ groups[triggers[n]][aliases[i].name] \in Handlers
          /\ groups[triggers[n]][aliases[i].codes[2]] = groups[triggers[n]][aliases[i].name]

\* C2: with recording on and an active history, every dispatch of a code
\* with a bound handler adds exactly one entry, valued (trigger, code), at a
\* timestamp not before the session start time
C2_EveryDispatchAddsOneEntry ==
    [][(Dispatched /\ recording /\ history # NoHistory /\ DispatchValue \in Handlers)
        => /\ history' = history
           /\ Cardinality(DOMAIN Entries') = Cardinality(DOMAIN Entries) + 1
           /\ \E t \in DOMAIN Entries' \ DOMAIN Entries :
                 /\ Entries'[t] = <<DispatchTrigger, DispatchCode>>
                 /\ t * TicksPerMs >= starting_time]_vars

\* C3: with recording off, a dispatch of a code with a bound handler calls
\* that handler once, with the event information, and changes neither the
\* active history nor the archive
C3_NotRecordingLeavesHistory ==
    [][(Dispatched /\ ~recording /\ DispatchValue \in Handlers)
        => /\ out'.calls = << <<DispatchValue, event_information>> >>
           /\ ~out'.threw
           /\ history' = history
           /\ histObj' = histObj
           /\ histories' = histories]_vars

\* a dispatch with recording off called a handler while the active history
\* held an entry
C3_Witness ==
    /\ out.op = "pipe"
    /\ ~recording
    /\ Len(out.calls) = 1
    /\ history # NoHistory
    /\ Entries # EmptyHistory

\* C4: a dispatch of a code that is no key of the pipe's trigger group
\* changes nothing: no handler call, no entry, no warning
C4_MissIsNoOp ==
    [][(Dispatched /\ DispatchValue = Absent)
        => /\ out'.calls = <<>>
           /\ out'.warnings = 0
           /\ ~out'.threw
           /\ state' = state]_vars

\* a code that is no key of the group was dispatched while recording into
\* an active history
C4_Witness ==
    /\ out.op = "pipe"
    /\ groups[out.args[3]][out.args[2]] = Absent
    /\ recording
    /\ history # NoHistory

\* C5: restartHistory(true) with an active history appends that object,
\* entries untouched, as the last element of the archive; restartHistory(false)
\* leaves the archive as it is; both leave an empty active history and set
\* the session start time to the clock reading
C5_RestartArchivesWhenAsked ==
    [][(Called("restartHistory") /\ Len(out'.args) = 1 /\ history # NoHistory)
        => /\ IF out'.args[1]
              THEN /\ histories'.arr = Append(histories.arr, history)
                   /\ histories'.named = histories.named
                   /\ histObj'[history] = histObj[history]
                   /\ history' # history
              ELSE histories' = histories
           /\ history' # NoHistory
           /\ Entries' = EmptyHistory
           /\ starting_time' = now]_vars

\* restartHistory(true) has archived a history that holds an entry
C5_Witness ==
    /\ out.op = "restartHistory"
    /\ out.args = <<TRUE>>
    /\ Len(histories.arr) >= 1
    /\ histories.arr[Len(histories.arr)] # NoHistory
    /\ histObj[histories.arr[Len(histories.arr)]] # EmptyHistory
    /\ Entries = EmptyHistory

\* C6: restartHistory with no argument, while an active history exists,
\* archives it as restartHistory(true) does
C6_KeepHistoryDefaultsToTrue ==
    [][(Called("restartHistory") /\ Len(out'.args) = 0 /\ history # NoHistory)
        => /\ histories'.arr = Append(histories.arr, history)
           /\ histObj'[history] = histObj[history]]_vars

\* C7: makePipe of a label that is no trigger group returns undefined, warns
\* once, and changes nothing
C7_UnknownTriggerWarns ==
    [][(Called("makePipe") /\ out'.args[1] \notin DOMAIN triggers)
        => /\ out'.ret = {}
           /\ out'.warnings = 1
           /\ ~out'.threw
           /\ state' = state]_vars

\* makePipe was asked for a label the configuration does not have
C7_Witness ==
    /\ out.op = "makePipe"
    /\ out.args[1] \notin DOMAIN triggers
    /\ out.warnings = 1

\* C8: before any restartHistory the active history exists, so a dispatch of
\* a code with a bound handler, with recording on, completes without a fault
C8_HistoryExistsAtConstruction ==
    (out.op = "pipe" /\ starting_time = NoTime /\ recording
        /\ groups[out.args[3]][out.args[2]] \in Handlers)
    => (~out.threw /\ history # NoHistory)

\* the closure makeEventCall makes for an entry is pending on a timer
Scheduled(info) ==
    \E i \in 1..Len(timers) :
        /\ "info" \in DOMAIN timers[i].handler
        /\ timers[i].handler.info = info

\* the history object that the last playHistory was given
Played == IF Len(out.args) = 0 THEN history ELSE out.args[1]

\* C9: after playHistory(h) a callback is scheduled for every entry of h,
\* and a timer that fires calls one handler
C9_ReplayCallsHandlers ==
    /\ (out.op = "playHistory" /\ Played # NoHistory)
        => \A t \in DOMAIN histObj[Played] : Scheduled(histObj[Played][t])
    /\ out.op = "timeout" => Len(out.calls) = 1

\* C10: playHistory(h) asks, for the entry at timestamp t, for a delay of t
\* minus the session start time
C10_ReplayDelays ==
    (out.op = "playHistory" /\ Played # NoHistory)
        => LET times == TimesAsc(DOMAIN histObj[Played])
               first == Len(timers) - Len(times)
           IN \A k \in 1..Len(times) :
                 timers[first + k].delay = MathRound(times[k] * TicksPerMs - starting_time)

\* C11: playHistory and the timers it sets leave the active history and the
\* archive as they are, whatever the recording flag
C11_ReplayNotRecorded ==
    [][(Called("playHistory") \/ Called("timeout"))
        => /\ history' = history
           /\ histObj' = histObj
           /\ histories' = histories]_vars

\* a timer set by playHistory has fired while recording was on and the
\* active history held an entry
C11_Witness ==
    /\ out.op = "timeout"
    /\ recording
    /\ history # NoHistory
    /\ Entries # EmptyHistory

\* C12: between two restartHistory calls every entry of the active history
\* stays, with its value, and only a dispatch with recording on adds one
C12_HistoryOnlyGrows ==
    [][(ncalls' # ncalls /\ out'.op # "restartHistory" /\ history # NoHistory)
        => /\ history' = history
           /\ \A t \in DOMAIN Entries : t \in DOMAIN Entries' /\ Entries'[t] = Entries[t]
           /\ Entries' # Entries => (out'.op = "pipe" /\ recording)]_vars

\* C13: a dispatch of a raw code whose alias label had no handler at reset
\* (the group holds undefined at that code) is ignored: no handler call, no
\* entry, no warning; stated for the sessions that have an active history
C13_UndefinedAliasIgnored ==
    [][(Dispatched /\ DispatchValue = Undefined /\ history # NoHistory)
        => /\ out'.calls = <<>>
           /\ out'.warnings = 0
           /\ ~out'.threw
           /\ histObj' = histObj]_vars

\* C14: an archived history is a snapshot: a dispatch through a pipe leaves
\* the entries of every element of the archive as they were
C14_ArchivedEntriesFrozen ==
    [][Dispatched
        => \A h \in Referenced(NoHistory, histories) : histObj'[h] = histObj[h]]_vars

\* C15: saveHistory, with any name or none, puts the active history at the
\* next positional index, keeps every history archived at an earlier index
\* where it was, and makes the active history the one stored under the name
C15_SaveAppendsAndKeeps ==
    [][Called("saveHistory")
        => /\ Len(histories'.arr) = Len(histories.arr) + 1
           /\ histories'.arr[Len(histories'.arr)] = history
           /\ \A i \in 1..Len(histories.arr) :
                 histories.arr[i] # NoHistory => histories'.arr[i] = histories.arr[i]
           /\ Len(out'.args) > 0 => HistoriesAt(histories', out'.args[1]) = history]_vars

\* C16: a reset with the configuration of the call before it, itself the
\* construction or a reset, leaves every binding of every trigger group as
\* that call left it
C16_ResetTwiceSameBindings ==
    [][(Called("reset") /\ out.op \in {"new", "reset"} /\ out'.args = out.args)
        => groups' = groups]_vars

\* C17: callEvent with a trigger name and a code at which the trigger group
\* has no handler warns once, calls nothing and raises no fault
C17_UnresolvedFailsSoftly ==
    (/\ out.op = "callEvent"
     /\ out.args[1] \in DOMAIN triggers
     /\ groups[triggers[out.args[1]]][out.args[2]] \in {Absent, Undefined})
        => (out.warnings = 1 /\ ~out.threw /\ out.calls = <<>>)

\* the pipe of the step was made under a configuration since replaced: its
\* group is not the group the current triggers hold under its trigger name
StalePipe == Dispatched /\ out'.args[3] # TriggerGroup(triggers, DispatchTrigger)

\* C18: a dispatch through a pipe made before a reset looks the code up in
\* the group the pipe was made with, calls the handler found there with the
\* current event information, and records the pair (trigger, code) in the
\* current active history under the current recording flag; this for every
\* dispatch that has a history to record into or has recording off
C18_PipeKeepsItsGroup ==
    [][(StalePipe /\ (history # NoHistory \/ ~recording))
        => /\ DispatchValue = Absent => (out'.calls = <<>> /\ histObj' = histObj)
           /\ DispatchValue \in Handlers
                 => (out'.calls = << <<DispatchValue, event_information>> >>
                     /\ ~out'.threw)
           /\ (DispatchValue # Absent /\ recording)
                 => histObj' = [histObj EXCEPT ![history] =
                                   (MathRound(now) :> <<DispatchTrigger, DispatchCode>>) @@ @]
           /\ (DispatchValue # Absent /\ ~recording) => histObj' = histObj]_vars

\* an old pipe has called a handler of its own group for a code the current
\* configuration does not bind, and the pair is in the active history
C18_Witness ==
    /\ out.op = "pipe"
    /\ out.args[1] \in DOMAIN triggers
    /\ out.args[3] # triggers[out.args[1]]
    /\ groups[triggers[out.args[1]]][out.args[2]] = Absent
    /\ groups[out.args[3]][out.args[2]] \in Handlers
    /\ out.calls = << <<groups[out.args[3]][out.args[2]], event_information>> >>
    /\ recording
    /\ history # NoHistory
    /\ MathRound(now) \in DOMAIN Entries
    /\ Entries[MathRound(now)] = <<out.args[1], out.args[2]>>

\* C19: reset(config) empties the archive, takes triggers, aliases, event
\* information and the recording flag (true when omitted) from config, and
\* leaves the active history, its entries and the start time as they were;
\* a recorded dispatch right after it adds its entry to that same history
C19_ResetKeepsActiveHistory ==
    [][/\ Called("reset")
          => LET c == out'.args[1]
                 s == settings[c]
             IN /\ histories' = EmptyHistories
                /\ triggers' = [n \in s.names |-> <<c, n>>]
                /\ aliases' = s.aliases
                /\ event_information' = s.event_information
                /\ recording' = (IF s.recording = <<>> THEN TRUE ELSE s.recording[1])
                /\ history' = history
                /\ starting_time' = starting_time
                /\ history # NoHistory => Entries' = Entries
       /\ (out.op = "reset" /\ Dispatched /\ recording /\ history # NoHistory
             /\ DispatchValue # Absent)
          => /\ history' = history
             /\ Entries' = (MathRound(now) :> <<DispatchTrigger, DispatchCode>>) @@ Entries
      ]_vars

\* a reset with a configuration that omits recording has run on an instance
\* whose active history holds entries
C19_Witness ==
    /\ out.op = "reset"
    /\ settings[out.args[1]].recording = <<>>
    /\ recording
    /\ history # NoHistory
    /\ Entries # EmptyHistory
    /\ starting_time # NoTime
    /\ histories = EmptyHistories

====
